---- MODULE Spec2Model ----
(***************************************************************************)
(* Recursive binary search tree (insert / search / inorder / delete with   *)
(* successor copy) and the Bell-number routines.                           *)
(*                                                                         *)
(* Nodes live in a heap: a function from node identities to records        *)
(* [data, left, right]; None is the identity 0.  A Python name that holds  *)
(* a node holds its identity, so "the same node" is "the same identity".   *)
(***************************************************************************)
EXTENDS Integers, Sequences, FiniteSets, TLC

VARIABLES
  heap,      \* the Node objects alive: identity -> [data, left, right]
  root,      \* the caller's variable root (rebound to each returned reference)
  selfRoot,  \* the BinarySearchTree object's field self.root
  op,        \* the call just made and what it returned / printed
  preHeap,   \* heap before that call
  preRoot,   \* root before that call
  raised,    \* an exception escaped a call
  abs,       \* the same inserts and deletes applied to a mathematical set
  inserted,  \* every value ever passed to insert
  onlyIns,   \* no delete has been called yet
  insCount,  \* inserts of a value absent from abs at the time of the call
  delCount,  \* deletes of a value present in abs at the time of the call
  pc, idx, data,   \* binary_search_tree_example: statement, loop index, data
  n, bn, bs, bl    \* Bell numbers: argument and the three results

vars == <<heap, root, selfRoot, op, preHeap, preRoot, raised,
          abs, inserted, onlyIns, insCount, delCount,
          pc, idx, data, n, bn, bs, bl>>

treeVars  == <<heap, root, selfRoot, op, preHeap, preRoot, raised>>
ghostVars == <<abs, inserted, onlyIns>>
countVars == <<insCount, delCount>>
demoVars  == <<pc, idx, data>>
bellVars  == <<n, bn, bs, bl>>

\* ---- bounds ----
MaxKey   == 4
MaxNodes == 4
MaxOps   == 5
MaxN     == 12

Keys == 1..MaxKey

None == 0

RECURSIVE InsertRec(_, _, _), InsertDup(_, _, _), InsertSwapped(_, _, _)
RECURSIVE Search(_, _, _), SearchLeftOnly(_, _, _)
RECURSIVE Inorder(_, _)
RECURSIVE DeleteRec(_, _, _)
RECURSIVE MinDescend(_, _)

\* Node(data): data set, both children None
Node(d) == [data |-> d, left |-> None, right |-> None]

\* identity of a newly constructed object: one no live node has
Fresh(h) == CHOOSE i \in 1..(Cardinality(DOMAIN h) + 1) :
              /\ i \notin DOMAIN h
              /\ \A j \in 1..(i - 1) : j \in DOMAIN h

EmptyHeap == [i \in {} |-> Node(0)]

\* ---- insert ----
\* what a call returns: the heap after it and the returned reference
InsertDup(h, r, d) ==
  IF r = None
  THEN LET id == Fresh(h) IN [heap |-> h @@ (id :> Node(d)), ret |-> id]
  ELSE IF d < h[r].data
  THEN LET res == InsertDup(h, h[r].left, d)
       IN  [heap |-> [res.heap EXCEPT ![r].left = res.ret], ret |-> r]
  ELSE LET res == InsertDup(h, h[r].right, d)
       IN  [heap |-> [res.heap EXCEPT ![r].right = res.ret], ret |-> r]

InsertSwapped(h, r, d) ==
  IF r = None
  THEN LET id == Fresh(h) IN [heap |-> h @@ (id :> Node(d)), ret |-> id]
  ELSE IF d > h[r].data
  THEN LET res == InsertSwapped(h, h[r].left, d)
       IN  [heap |-> [res.heap EXCEPT ![r].left = res.ret], ret |-> r]
  ELSE IF d < h[r].data
  THEN LET res == InsertSwapped(h, h[r].right, d)
       IN  [heap |-> [res.heap EXCEPT ![r].right = res.ret], ret |-> r]
  ELSE [heap |-> h, ret |-> r]

InsertRec(h, r, d) ==
  IF r = None
  THEN LET id == Fresh(h) IN [heap |-> h @@ (id :> Node(d)), ret |-> id]
  ELSE IF d < h[r].data
  THEN LET res == InsertRec(h, h[r].left, d)
       IN  [heap |-> [res.heap EXCEPT ![r].left = res.ret], ret |-> r]
  ELSE IF d > h[r].data
  THEN LET res == InsertRec(h, h[r].right, d)
       IN  [heap |-> [res.heap EXCEPT ![r].right = res.ret], ret |-> r]
  ELSE [heap |-> h, ret |-> r]

\* ---- search ----
SearchLeftOnly(h, r, key) ==
  IF r = None THEN FALSE
  ELSE IF key = h[r].data THEN TRUE
  ELSE SearchLeftOnly(h, h[r].left, key)

Search(h, r, key) ==
  IF r = None THEN FALSE
  ELSE IF key = h[r].data THEN TRUE
  ELSE IF key < h[r].data THEN Search(h, h[r].left, key)
  ELSE Search(h, h[r].right, key)

\* ---- inorder: the values printed, in print order ----
Inorder(h, r) ==
  IF r # None
  THEN Inorder(h, h[r].left) \o <<h[r].data>> \o Inorder(h, h[r].right)
  ELSE <<>>

\* ---- _min_value ----
MinDescend(h, current) ==
  IF h[current].left # None THEN MinDescend(h, h[current].left)
  ELSE h[current].data

MinValueNoDescend(h, node) ==
  IF node = None THEN 0 ELSE h[node].data

\* on None the attribute access raises; the value 0 stands for "no value"
\* and the caller records the raise
MinValue(h, node) ==
  IF node = None THEN 0 ELSE MinDescend(h, node)

\* ---- delete ----
\* a call's result: heap after, returned reference, the arguments of the
\* _min_value calls made (in order) and the number of delete calls made
DelResult(h, r, m, c) == [heap |-> h, ret |-> r, mins |-> m, calls |-> c]

\* the else branch of delete: root holds key
DeleteFoundNoRightCheck(h, r) ==
  IF h[r].left = None THEN DelResult(h, h[r].right, <<>>, 1)
  ELSE LET m   == MinValue(h, h[r].right)
           h1  == [h EXCEPT ![r].data = m]
           res == DeleteRec(h1, h1[r].right, m)
       IN  DelResult([res.heap EXCEPT ![r].right = res.ret], r,
                     <<h[r].right>> \o res.mins, 1 + res.calls)

DeleteFoundDropsRight(h, r) ==
  IF h[r].left = None THEN DelResult(h, h[r].left, <<>>, 1)
  ELSE IF h[r].right = None THEN DelResult(h, h[r].left, <<>>, 1)
  ELSE LET m   == MinValue(h, h[r].right)
           h1  == [h EXCEPT ![r].data = m]
           res == DeleteRec(h1, h1[r].right, m)
       IN  DelResult([res.heap EXCEPT ![r].right = res.ret], r,
                     <<h[r].right>> \o res.mins, 1 + res.calls)

DeleteFoundRelink(h, r) ==
  IF h[r].left = None THEN DelResult(h, h[r].right, <<>>, 1)
  ELSE IF h[r].right = None THEN DelResult(h, h[r].left, <<>>, 1)
  ELSE LET m   == MinValue(h, h[r].right)
           res == DeleteRec(h, h[r].right, m)
           h2  == [res.heap EXCEPT ![r].right = res.ret]
           id  == Fresh(h2)
       IN  DelResult(h2 @@ (id :> [h2[r] EXCEPT !.data = m]), id,
                     <<h[r].right>> \o res.mins, 1 + res.calls)

DeleteFound(h, r) ==
  IF h[r].left = None THEN DelResult(h, h[r].right, <<>>, 1)
  ELSE IF h[r].right = None THEN DelResult(h, h[r].left, <<>>, 1)
  ELSE LET m   == MinValue(h, h[r].right)
           h1  == [h EXCEPT ![r].data = m]
           res == DeleteRec(h1, h1[r].right, m)
       IN  DelResult([res.heap EXCEPT ![r].right = res.ret], r,
                     <<h[r].right>> \o res.mins, 1 + res.calls)

DeleteRec(h, r, key) ==
  IF r = None THEN DelResult(h, r, <<>>, 1)
  ELSE IF key < h[r].data
  THEN LET res == DeleteRec(h, h[r].left, key)
       IN  DelResult([res.heap EXCEPT ![r].left = res.ret], r,
                     res.mins, 1 + res.calls)
  ELSE IF key > h[r].data
  THEN LET res == DeleteRec(h, h[r].right, key)
       IN  DelResult([res.heap EXCEPT ![r].right = res.ret], r,
                     res.mins, 1 + res.calls)
  ELSE DeleteFound(h, r)

\* ---- live nodes: those the caller's root still leads to ----
Children(h, S) == {c \in UNION {{h[i].left, h[i].right} : i \in S} : c # None}

RECURSIVE ReachFrom(_, _)
ReachFrom(h, S) ==
  LET T == S \cup Children(h, S) IN IF T = S THEN S ELSE ReachFrom(h, T)

Reach(h, r) == IF r = None THEN {} ELSE ReachFrom(h, {r})

\* a node no reference leads to is released
Collect(h, r) == [i \in Reach(h, r) |-> h[i]]

\* ---- the calls, as the caller makes them: root = bst.f(root, k) ----
OpRec(name, key, ret, mins, calls, printed, fnd) ==
  [name |-> name, key |-> key, ret |-> ret, mins |-> mins, calls |-> calls,
   printed |-> printed, found |-> fnd]

\* BinarySearchTree(): self.root = None; the caller starts with root = None
InitTree ==
  /\ heap = EmptyHeap /\ root = None /\ selfRoot = None
  /\ op = OpRec("init", 0, None, <<>>, 0, <<>>, FALSE)
  /\ preHeap = EmptyHeap /\ preRoot = None /\ raised = FALSE

InitGhost == abs = {} /\ inserted = {} /\ onlyIns = TRUE
InitCount == insCount = 0 /\ delCount = 0
InitDemo  == pc = 0 /\ idx = 0 /\ data = <<>>
InitBell  == n = 0 /\ bn = -1 /\ bs = -1 /\ bl = <<>>

CallInsert(k) ==
  LET res == InsertRec(heap, root, k) IN
  /\ heap' = res.heap
  /\ root' = res.ret
  /\ op' = OpRec("insert", k, res.ret, <<>>, 0, <<>>, FALSE)
  /\ preHeap' = heap /\ preRoot' = root
  /\ UNCHANGED <<selfRoot, raised>>

CallDelete(k) ==
  LET res == DeleteRec(heap, root, k)
      exc == \E i \in 1..Len(res.mins) : res.mins[i] = None
  IN
  /\ heap' = IF exc THEN heap ELSE Collect(res.heap, res.ret)
  /\ root' = IF exc THEN root ELSE res.ret
  /\ raised' = (raised \/ exc)
  /\ op' = OpRec("delete", k, res.ret, res.mins, res.calls, <<>>, FALSE)
  /\ preHeap' = heap /\ preRoot' = root
  /\ UNCHANGED selfRoot

CallSearch(k) ==
  /\ op' = OpRec("search", k, None, <<>>, 0, <<>>, Search(heap, root, k))
  /\ preHeap' = heap /\ preRoot' = root
  /\ UNCHANGED <<heap, root, selfRoot, raised>>

CallInorder ==
  /\ op' = OpRec("inorder", 0, None, <<>>, 0, Inorder(heap, root), FALSE)
  /\ preHeap' = heap /\ preRoot' = root
  /\ UNCHANGED <<heap, root, selfRoot, raised>>

GhostInsert(k) == abs' = abs \cup {k} /\ inserted' = inserted \cup {k}
                  /\ onlyIns' = onlyIns
GhostDelete(k) == abs' = abs \ {k} /\ inserted' = inserted /\ onlyIns' = FALSE

\* ---- Spec: any sequence of calls with keys from Keys ----
Init == InitTree /\ InitGhost /\ InitCount /\ InitDemo /\ InitBell

\* at most MaxNodes nodes are ever alive
Room(k) == Cardinality(DOMAIN InsertRec(heap, root, k).heap) <= MaxNodes

Insert(k) == /\ ~raised /\ Room(k) /\ CallInsert(k) /\ GhostInsert(k)
             /\ UNCHANGED <<countVars, demoVars, bellVars>>
Delete(k) == /\ ~raised /\ CallDelete(k) /\ GhostDelete(k)
             /\ UNCHANGED <<countVars, demoVars, bellVars>>
SearchFor(k) == /\ ~raised /\ CallSearch(k)
                /\ UNCHANGED <<ghostVars, countVars, demoVars, bellVars>>
Traverse == /\ ~raised /\ CallInorder
            /\ UNCHANGED <<ghostVars, countVars, demoVars, bellVars>>

Next == \/ \E k \in Keys : Insert(k)
        \/ \E k \in Keys : Delete(k)
        \/ \E k \in Keys : SearchFor(k)
        \/ Traverse

Spec == Init /\ [][Next]_vars

\* ---- SpecCount: at most MaxOps inserts and deletes, counted ----
CountedInsert(k) ==
  /\ ~raised /\ insCount + delCount < MaxOps /\ Room(k)
  /\ CallInsert(k) /\ GhostInsert(k)
  /\ insCount' = IF k \in abs THEN insCount ELSE insCount + 1
  /\ delCount' = delCount
  /\ UNCHANGED <<demoVars, bellVars>>

CountedDelete(k) ==
  /\ ~raised /\ insCount + delCount < MaxOps
  /\ CallDelete(k) /\ GhostDelete(k)
  /\ delCount' = IF k \in abs THEN delCount + 1 ELSE delCount
  /\ insCount' = insCount
  /\ UNCHANGED <<demoVars, bellVars>>

NextCount == \/ \E k \in Keys : CountedInsert(k)
             \/ \E k \in Keys : CountedDelete(k)
             \/ Traverse

SpecCount == Init /\ [][NextCount]_vars

\* ---- SpecDemo: binary_search_tree_example ----
DemoData == <<50, 30, 20, 40, 70, 60, 80>>

\* the statements after the insertion loop, in order
DemoScript ==
  << [f |-> "inorder", key |-> 0],
     [f |-> "search",  key |-> 40],
     [f |-> "search",  key |-> 90],
     [f |-> "delete",  key |-> 20],
     [f |-> "inorder", key |-> 0],
     [f |-> "delete",  key |-> 30],
     [f |-> "inorder", key |-> 0],
     [f |-> "delete",  key |-> 50],
     [f |-> "inorder", key |-> 0] >>

DemoDone == Len(DemoScript) + 1

\* the orders in which the scenario's seven values can be listed
DemoOrders ==
  LET V == {DemoData[i] : i \in 1..Len(DemoData)} IN
  {s \in [1..Len(DemoData) -> V] : \A i, j \in 1..Len(DemoData) : s[i] = s[j] => i = j}

InitDemoRun ==
  /\ InitTree /\ InitGhost /\ InitCount /\ InitBell
  /\ pc = 0 /\ idx = 0 /\ data \in DemoOrders

\* for value in data: root = bst.insert(root, value)
DemoLoop ==
  /\ pc = 0 /\ idx < Len(data)
  /\ CallInsert(data[idx + 1])
  /\ idx' = idx + 1
  /\ pc' = IF idx + 1 = Len(data) THEN 1 ELSE 0
  /\ UNCHANGED <<data, ghostVars, countVars, bellVars>>

DemoAt(f) == pc \in 1..Len(DemoScript) /\ DemoScript[pc].f = f

DemoInorder ==
  /\ DemoAt("inorder") /\ CallInorder /\ pc' = pc + 1
  /\ UNCHANGED <<idx, data, ghostVars, countVars, bellVars>>

DemoSearch ==
  /\ DemoAt("search") /\ CallSearch(DemoScript[pc].key) /\ pc' = pc + 1
  /\ UNCHANGED <<idx, data, ghostVars, countVars, bellVars>>

DemoDelete ==
  /\ DemoAt("delete") /\ CallDelete(DemoScript[pc].key) /\ pc' = pc + 1
  /\ UNCHANGED <<idx, data, ghostVars, countVars, bellVars>>

NextDemo == DemoLoop \/ DemoInorder \/ DemoSearch \/ DemoDelete

SpecDemo == InitDemoRun /\ [][NextDemo]_vars

\* ---- Bell numbers ----
RECURSIVE BellInner(_, _, _), BellOuter(_, _)
RECURSIVE StirlingInner(_, _, _), StirlingInnerPlusOne(_, _, _)
RECURSIVE StirlingOuter(_, _)
RECURSIVE SumRow(_, _), BellListLoop(_, _)

\* [[0 for _ in range(n + 1)] for _ in range(n + 1)]
ZeroTable(m) == [i \in 0..m |-> [j \in 0..m |-> 0]]

\* Each loop is written as what it leaves after its iterations 1..j (1..i for
\* an outer loop); an inner loop writes row i only and reads row i - 1 (prev).

\* for j in range(1, i + 1): bell[i][j] = bell[i-1][j-1] + bell[i][j-1]
BellInner(row, prev, j) ==
  IF j < 1 THEN row
  ELSE LET r == BellInner(row, prev, j - 1)
       IN  [r EXCEPT ![j] = prev[j - 1] + r[j - 1]]

\* for i in range(1, n + 1): bell[i][0] = bell[i-1][i-1]; inner loop
BellOuter(bell, i) ==
  IF i < 1 THEN bell
  ELSE LET b == BellOuter(bell, i - 1)
       IN  [b EXCEPT ![i] =
              BellInner([b[i] EXCEPT ![0] = b[i - 1][i - 1]], b[i - 1], i)]

bell_number(m) ==
  IF m = 0 THEN 1
  ELSE BellOuter([ZeroTable(m) EXCEPT ![0][0] = 1], m)[m][0]

StirlingInnerPlusOne(row, prev, j) ==
  IF j < 1 THEN row
  ELSE LET r == StirlingInnerPlusOne(row, prev, j - 1)
       IN  [r EXCEPT ![j] = (j + 1) * prev[j] + prev[j - 1]]

\* for j in range(1, i + 1):
\*     stirling[i][j] = j * stirling[i-1][j] + stirling[i-1][j-1]
StirlingInner(row, prev, j) ==
  IF j < 1 THEN row
  ELSE LET r == StirlingInner(row, prev, j - 1)
       IN  [r EXCEPT ![j] = j * prev[j] + prev[j - 1]]

\* for i in range(1, n + 1): inner loop
StirlingOuter(st, i) ==
  IF i < 1 THEN st
  ELSE LET t == StirlingOuter(st, i - 1)
       IN  [t EXCEPT ![i] = StirlingInner(t[i], t[i - 1], i)]

\* sum(row) over the indices 0..k
SumRow(row, k) == IF k < 0 THEN 0 ELSE row[k] + SumRow(row, k - 1)

\* the base-case loop writes 0 into cells that are already 0, then
\* stirling[0][0] = 1
bell_number_sum(m) ==
  IF m = 0 THEN 1
  ELSE SumRow(StirlingOuter([ZeroTable(m) EXCEPT ![0][0] = 1], m)[m], m)

\* for i in range(1, n + 1): bell_list.append(bell_number(i))
\* bell_list after the iterations 1..i
BellListLoop(lst, i) ==
  IF i < 1 THEN lst ELSE Append(BellListLoop(lst, i - 1), bell_number(i))

bell_numbers_list(m) ==
  IF m = 0 THEN <<1>> ELSE BellListLoop(<<1>>, m)

\* ---- SpecBell: each function applied to an argument in 0..MaxN ----
InitBellRun ==
  /\ InitTree /\ InitGhost /\ InitCount /\ InitDemo
  /\ n \in 0..MaxN /\ bn = -1 /\ bs = -1 /\ bl = <<>>

CallBellNumber ==
  /\ bn = -1 /\ bn' = bell_number(n)
  /\ UNCHANGED <<n, bs, bl, treeVars, ghostVars, countVars, demoVars>>

CallBellNumberSum ==
  /\ bs = -1 /\ bs' = bell_number_sum(n)
  /\ UNCHANGED <<n, bn, bl, treeVars, ghostVars, countVars, demoVars>>

CallBellNumbersList ==
  /\ bl = <<>> /\ bl' = bell_numbers_list(n)
  /\ UNCHANGED <<n, bn, bs, treeVars, ghostVars, countVars, demoVars>>

NextBell == CallBellNumber \/ CallBellNumberSum \/ CallBellNumbersList

SpecBell == InitBellRun /\ [][NextBell]_vars

\* ======================= properties =======================
RECURSIVE FindNode(_, _, _), PathTo(_, _, _), LeftSpine(_, _)

\* the values stored in the subtree of r
Values(h, r) == {h[i].data : i \in Reach(h, r)}

\* the node holding key on the search path from r, or None
FindNode(h, r, key) ==
  IF r = None THEN None
  ELSE IF key = h[r].data THEN r
  ELSE IF key < h[r].data THEN FindNode(h, h[r].left, key)
  ELSE FindNode(h, h[r].right, key)

\* the nodes on the search path from r towards key
PathTo(h, r, key) ==
  IF r = None THEN {}
  ELSE {r} \cup (IF key < h[r].data THEN PathTo(h, h[r].left, key)
                 ELSE IF key > h[r].data THEN PathTo(h, h[r].right, key)
                 ELSE {})

\* r and its chain of left descendants
LeftSpine(h, r) == IF r = None THEN {} ELSE {r} \cup LeftSpine(h, h[r].left)

MinOf(S) == CHOOSE m \in S : \A v \in S : m <= v

Ascending(s) == \A i \in 1..(Len(s) - 1) : s[i] < s[i + 1]

IsBST(h, r) ==
  \A i \in Reach(h, r) :
    /\ \A v \in Values(h, h[i].left)  : v < h[i].data
    /\ \A v \in Values(h, h[i].right) : v > h[i].data

\* the last call was a delete whose key sat in a node with two children
DeletedTwoChildNode ==
  /\ op.name = "delete"
  /\ LET x == FindNode(preHeap, preRoot, op.key)
     IN  x # None /\ preHeap[x].left # None /\ preHeap[x].right # None

\* C1: after any sequence of inserts and deletes the tree is ordered: at every
\* node the left subtree holds only smaller values and the right subtree only
\* larger ones, and the inorder sequence is strictly ascending.
C1_OrderingInvariant ==
  /\ IsBST(heap, root)
  /\ Ascending(Inorder(heap, root))

C1_Witness ==
  /\ DeletedTwoChildNode
  /\ Cardinality(DOMAIN heap) >= 3
  /\ heap[root].left # None /\ heap[root].right # None

\* C2: after root = delete(root, v), search(root, v) is False and every other
\* key is found exactly when it was found before the delete.
C2_DeleteThenSearch ==
  op.name = "delete" =>
    /\ ~Search(heap, root, op.key)
    /\ \A w \in Keys \ {op.key} :
         Search(heap, root, w) = Search(preHeap, preRoot, w)

C2_Witness ==
  /\ DeletedTwoChildNode
  /\ op.key = preHeap[preRoot].data
  /\ Cardinality(Values(heap, root)) >= 3

\* C3: in a tree built by inserts only, search(root, v) is True exactly for
\* the inserted values (so it is False on an absent root).
C3_SearchIffInserted ==
  onlyIns =>
    /\ \A v \in Keys : Search(heap, root, v) <=> v \in inserted
    /\ op.name = "search" => (op.found <=> op.key \in inserted)

C3_Witness ==
  /\ onlyIns /\ op.name = "search" /\ op.found
  /\ Cardinality(inserted) >= 3
  /\ op.key # heap[root].data
  /\ \E v \in Keys : v \notin inserted

\* C4 as stated: the number of values inorder emits is the number of distinct
\* values inserted minus the number of deletes that removed a present value.
C4_DistinctInsertedMinusDeletes ==
  Len(Inorder(heap, root)) = Cardinality(inserted) - delCount

\* C4 amended: the number of values inorder emits (and the number of nodes) is
\* the size of the abstract set, which is the number of inserts of an absent
\* value minus the number of deletes of a present value; an insert of a
\* present value and a delete of an absent one change the count by 0, every
\* other insert or delete by exactly 1.
C4_CountMatchesSet ==
  /\ Len(Inorder(heap, root)) = Cardinality(abs)
  /\ Cardinality(DOMAIN heap) = Cardinality(abs)
  /\ Len(Inorder(heap, root)) = insCount - delCount
  /\ op.name = "inorder" => Len(op.printed) = Cardinality(abs)
  /\ op.name = "insert" =>
       Cardinality(DOMAIN heap) - Cardinality(DOMAIN preHeap) =
         IF Search(preHeap, preRoot, op.key) THEN 0 ELSE 1
  /\ op.name = "delete" =>
       Cardinality(DOMAIN preHeap) - Cardinality(DOMAIN heap) =
         IF Search(preHeap, preRoot, op.key) THEN 1 ELSE 0

C4_Witness ==
  /\ op.name = "inorder"
  /\ delCount >= 1
  /\ insCount > Cardinality(inserted)
  /\ Len(op.printed) >= 2

\* C5: inserting a value that is already present returns the same root and
\* changes no node: same nodes, same values, same children, same inorder.
C5_DuplicateInsertNoChange ==
  (op.name = "insert" /\ Search(preHeap, preRoot, op.key)) =>
    /\ op.ret = preRoot
    /\ root = preRoot
    /\ heap = preHeap
    /\ Inorder(heap, root) = Inorder(preHeap, preRoot)

C5_Witness ==
  /\ op.name = "insert" /\ Search(preHeap, preRoot, op.key)
  /\ Cardinality(DOMAIN preHeap) >= 3
  /\ op.key # preHeap[preRoot].data

\* C6: the BinarySearchTree object's own root field refers to the root node
\* whenever the tree is non-empty and is None exactly when it is empty.
C6_SelfRootHoldsRoot ==
  /\ root # None => selfRoot = root
  /\ selfRoot = None <=> root = None

\* C7: the demonstration scenario gives the stated traversals, search results
\* and final root.
C7_DemoScenario ==
  data = DemoData =>
    /\ pc = 1 => Inorder(heap, root) = <<20, 30, 40, 50, 60, 70, 80>>
    /\ pc = 2 => op.printed = <<20, 30, 40, 50, 60, 70, 80>>
    /\ pc = 3 => op.found = TRUE
    /\ pc = 4 => op.found = FALSE
    /\ pc \in {5, 6} => Inorder(heap, root) = <<30, 40, 50, 60, 70, 80>>
    /\ pc = 6 => op.printed = <<30, 40, 50, 60, 70, 80>>
    /\ pc \in {7, 8} => Inorder(heap, root) = <<40, 50, 60, 70, 80>>
    /\ pc = 8 => op.printed = <<40, 50, 60, 70, 80>>
    /\ pc \in {9, 10} => /\ Inorder(heap, root) = <<40, 60, 70, 80>>
                         /\ heap[root].data = 60
    /\ pc = 10 => op.printed = <<40, 60, 70, 80>>

C7_Witness ==
  /\ data = DemoData /\ pc = DemoDone
  /\ op.name = "inorder" /\ Len(op.printed) = 4
  /\ heap[root].data = 60

\* the Bell numbers B(0)..B(10)
BellTable == <<1, 1, 2, 5, 15, 52, 203, 877, 4140, 21147, 115975>>

\* C8: bell_number(n) and bell_number_sum(n) agree and are the n-th Bell
\* number; bell_numbers_list(n) has n + 1 entries, the i-th being
\* bell_number(i).
C8_BellAgree ==
  /\ (bn # -1 /\ bs # -1) => bn = bs
  /\ (bn # -1 /\ n < Len(BellTable)) => bn = BellTable[n + 1]
  /\ (bs # -1 /\ n < Len(BellTable)) => bs = BellTable[n + 1]
  /\ bl # <<>> =>
       /\ Len(bl) = n + 1
       /\ \A i \in 0..n : bl[i + 1] = bell_number(i)
       /\ \A i \in 0..n : i < Len(BellTable) => bl[i + 1] = BellTable[i + 1]

C8_Witness ==
  /\ n = 10 /\ bn = 115975 /\ bs = 115975
  /\ Len(bl) = 11 /\ bl[11] = 115975

\* C9: deleting a key held by a node with two children keeps that node in
\* place, gives it the minimum of its former right subtree, leaves its left
\* subtree untouched, removes exactly that minimum from its right subtree and
\* changes no node off the path root -> node -> successor.
C9_SuccessorCopyFrame ==
  DeletedTwoChildNode =>
    LET x    == FindNode(preHeap, preRoot, op.key)
        m    == MinOf(Values(preHeap, preHeap[x].right))
        path == PathTo(preHeap, preRoot, op.key)
                  \cup LeftSpine(preHeap, preHeap[x].right)
    IN  /\ root = preRoot /\ op.ret = preRoot
        /\ \A i \in PathTo(preHeap, preRoot, op.key) \ {x} :
             i \in DOMAIN heap /\ heap[i] = preHeap[i]
        /\ x \in DOMAIN heap
        /\ heap[x].data = m
        /\ heap[x].left = preHeap[x].left
        /\ \A i \in Reach(preHeap, preHeap[x].left) :
             i \in DOMAIN heap /\ heap[i] = preHeap[i]
        /\ Values(heap, heap[x].right) = Values(preHeap, preHeap[x].right) \ {m}
        /\ \A i \in DOMAIN preHeap \ path :
             i \in DOMAIN heap /\ heap[i] = preHeap[i]
        /\ Cardinality(DOMAIN preHeap \ DOMAIN heap) = 1

C9_Witness ==
  /\ DeletedTwoChildNode
  /\ LET x == FindNode(preHeap, preRoot, op.key)
     IN  preHeap[preHeap[x].right].left # None

\* C10: _min_value is never called on None: delete calls it at most once, on
\* the right child of a node that has both children; the nested delete of the
\* successor calls it no more, and a delete makes at most one call per level
\* of the tree, so it ends.
C10_MinValueNeverOnNone ==
  /\ ~raised
  /\ \A i \in 1..Len(op.mins) : op.mins[i] # None
  /\ Len(op.mins) <= 1
  /\ Len(op.mins) = 1 =>
       /\ DeletedTwoChildNode
       /\ op.mins[1] = preHeap[FindNode(preHeap, preRoot, op.key)].right
  /\ DeletedTwoChildNode => Len(op.mins) = 1
  /\ op.name = "delete" => op.calls <= Cardinality(DOMAIN preHeap) + 1

C10_Witness ==
  /\ DeletedTwoChildNode
  /\ Len(op.mins) = 1 /\ op.mins[1] # None
  /\ op.calls >= 3

====
